---- MODULE Spec2Model ----
(***************************************************************************)
(* License artifact protocol of petfriendlyvet.com:                        *)
(*   - the issuer   rust/pfv-license/src/bin/generate.rs                    *)
(*   - the validator rust/scc-license/src/main.rs                           *)
(* Both are one-shot processes that share nothing but the artifact file.   *)
(*                                                                         *)
(* Abstractions (libraries that are not part of the repository):           *)
(*   - base64 STANDARD is modelled exactly, on symbols 0..63, the padding   *)
(*     symbol and one symbol standing for every byte outside the alphabet; *)
(*   - serde_json's encoding of a LicenseInfo is a fixed-layout byte       *)
(*     string, one byte per field, each byte an index into a value table;  *)
(*   - SHA-256 is an ideal (collision-free) digest: the digest of a        *)
(*     message is represented by the message it was computed from;         *)
(*   - time is counted in whole days.                                      *)
(***************************************************************************)
EXTENDS Integers, Sequences, FiniteSets, TLC

VARIABLES
    now,      \* the wall clock (Utc::now()), in days
    file,     \* the content of the artifact file, or NoFile
    orig,     \* provenance of the file: who wrote it last and what was written
    issuer,   \* position or outcome of the run of the issuer process
    pending,  \* what the running issuer has built and not yet written
    out       \* outcome of the last run of the validator process

vars == <<now, file, orig, issuer, pending, out>>

-----------------------------------------------------------------------------
(* Bounds of the model.                                                    *)

MaxTicks == 2          \* the clock advances at most this many days
MaxDays == 1           \* largest --days value tried
NegDays == 1           \* --days values down to -NegDays are tried
InstallLife == 1       \* lifetime, in days, of the vendor-installed records

-----------------------------------------------------------------------------
(* Option<T>.                                                              *)

None == [some |-> FALSE]
Some(v) == [some |-> TRUE, val |-> v]
unwrap_or(opt, default) == IF opt.some THEN opt.val ELSE default

-----------------------------------------------------------------------------
(* base64::engine::general_purpose::STANDARD.                              *)

Pad == 64              \* the symbol '='
BadSym == 65           \* any byte outside the base64 alphabet
Byte == 0..255

RECURSIVE Base64Encode(_)
Base64Encode(b) ==
    IF Len(b) = 0 THEN <<>>
    ELSE IF Len(b) = 1 THEN
        << b[1] \div 4, (b[1] % 4) * 16, Pad, Pad >>
    ELSE IF Len(b) = 2 THEN
        << b[1] \div 4, (b[1] % 4) * 16 + b[2] \div 16, (b[2] % 16) * 4, Pad >>
    ELSE
        << b[1] \div 4, (b[1] % 4) * 16 + b[2] \div 16,
           (b[2] % 16) * 4 + b[3] \div 64, b[3] % 64 >>
        \o Base64Encode(SubSeq(b, 4, Len(b)))

\* The bytes of one group of four symbols (the last group may be padded).
DecodeGroup(g) ==
    IF g[3] = Pad THEN << g[1] * 4 + g[2] \div 16 >>
    ELSE IF g[4] = Pad THEN
        << g[1] * 4 + g[2] \div 16, (g[2] % 16) * 16 + g[3] \div 4 >>
    ELSE << g[1] * 4 + g[2] \div 16, (g[2] % 16) * 16 + g[3] \div 4,
            (g[3] % 4) * 64 + g[4] >>

\* What the decoder accepts: canonical, padded base64.
Base64Valid(s) ==
    /\ Len(s) % 4 = 0
    /\ \A i \in 1..Len(s) : s[i] \in 0..Pad
    /\ \A i \in 1..Len(s) : s[i] = Pad => i >= Len(s) - 1
    /\ Len(s) > 0 =>
        /\ s[Len(s) - 1] = Pad => s[Len(s)] = Pad
        /\ (s[Len(s)] = Pad /\ s[Len(s) - 1] # Pad) => s[Len(s) - 1] % 4 = 0
        /\ s[Len(s) - 1] = Pad => s[Len(s) - 2] % 16 = 0

RECURSIVE DecodeGroups(_)
DecodeGroups(s) ==
    IF Len(s) = 0 THEN <<>>
    ELSE DecodeGroup(SubSeq(s, 1, 4)) \o DecodeGroups(SubSeq(s, 5, Len(s)))

\* Result<Vec<u8>, DecodeError>
Base64Decode(s) ==
    IF Base64Valid(s) THEN [ok |-> TRUE, bytes |-> DecodeGroups(s)]
    ELSE [ok |-> FALSE, bytes |-> <<>>]

-----------------------------------------------------------------------------
(* SHA-256 and hex, idealised.                                             *)

Sha256(msg) == [sha256 |-> msg]
HexEncode(digest) == [hex |-> digest]

\* b"pfv-license-salt-2025"
PfvSalt == <<112, 102, 118, 45, 108, 105, 99, 101, 110, 115, 101, 45,
             115, 97, 108, 116, 45, 50, 48, 50, 53>>
\* b"scc-license-salt-2025"
SccSalt == <<115, 99, 99, 45, 108, 105, 99, 101, 110, 115, 101, 45,
             115, 97, 108, 116, 45, 50, 48, 50, 53>>

\* generate.rs: compute_signature
pfv_compute_signature(payload) == HexEncode(Sha256(payload \o PfvSalt))

\* main.rs: compute_signature
scc_compute_signature(payload) == HexEncode(Sha256(payload \o SccSalt))

-----------------------------------------------------------------------------
(* serde_json encoding of LicenseInfo: one byte per field, in the order of  *)
(* the struct's fields.  A string is encoded by its index in StrTable, a   *)
(* Vec<String> by its index in ListTable, a timestamp by its day number,   *)
(* and Option<u32> by 0 for None (JSON null) and n + 1 for Some(n).        *)

TierNames == <<"trial", "single", "multi", "enterprise", "developer">>

StrTable == TierNames \o <<"gold", "Demo User", "demo@example.com", "Dr. Pablo">>

ListTable ==
    << <<>>, <<"localhost">>, <<"a.com", "b.com">>, <<"">>, <<"a.com", "">>,
       <<"basic">>,
       <<"basic", "appointments", "ecommerce">>,
       <<"basic", "appointments", "ecommerce", "multi_location">>,
       <<"all">>,
       <<"all", "dev_mode">> >>

IndexIn(table, v) == CHOOSE i \in 1..Len(table) : table[i] = v

OptCode(opt) == IF opt.some THEN opt.val + 1 ELSE 0
OptDecode(b) == IF b = 0 THEN None ELSE Some(b - 1)

\* serde_json::to_vec(&info)
Serialize(info) ==
    << IndexIn(StrTable, info.licensee),
       IndexIn(StrTable, info.email),
       IndexIn(StrTable, info.license_type),
       info.issued_at,
       info.expires_at,
       IndexIn(ListTable, info.domains),
       IndexIn(ListTable, info.features),
       OptCode(info.max_users) >>

\* Whether serde_json::from_slice::<LicenseInfo> accepts the bytes: every
\* field present and of its type, license_type one of the enum's lowercase
\* variant names.
Deserializable(b) ==
    /\ Len(b) = 8
    /\ b[1] \in 1..Len(StrTable)
    /\ b[2] \in 1..Len(StrTable)
    /\ b[3] \in 1..Len(StrTable)
    /\ \E i \in 1..Len(TierNames) : TierNames[i] = StrTable[b[3]]
    /\ b[6] \in 1..Len(ListTable)
    /\ b[7] \in 1..Len(ListTable)

\* serde_json::from_slice::<LicenseInfo>, on bytes it accepts
Deserialize(b) ==
    [ licensee     |-> StrTable[b[1]],
      email        |-> StrTable[b[2]],
      license_type |-> StrTable[b[3]],
      issued_at    |-> b[4],
      expires_at   |-> b[5],
      domains      |-> ListTable[b[6]],
      features     |-> ListTable[b[7]],
      max_users    |-> OptDecode(b[8]) ]

-----------------------------------------------------------------------------
(* The artifact file.                                                      *)

NoSig == HexEncode(Sha256(<<>>))

\* no file at the path
NoFile == [kind |-> "nofile", version |-> 0, payload |-> <<>>, signature |-> NoSig]
\* a file that is not JSON
Garbage == [kind |-> "garbage", version |-> 0, payload |-> <<>>, signature |-> NoSig]
\* a file of length zero, as File::create leaves it
Truncated == [kind |-> "truncated", version |-> 0, payload |-> <<>>, signature |-> NoSig]
\* a JSON object with the fields version, payload and signature
JsonFile(license_file) ==
    [kind |-> "json", version |-> license_file.version,
     payload |-> license_file.payload, signature |-> license_file.signature]

-----------------------------------------------------------------------------
(* Entitlement policy of the issuer.                                       *)

get_features_for_type(license_type) ==
    CASE license_type = "trial" -> <<"basic">>
      [] license_type = "single" -> <<"basic", "appointments", "ecommerce">>
      [] license_type = "multi" ->
            <<"basic", "appointments", "ecommerce", "multi_location">>
      [] license_type = "enterprise" -> <<"all">>
      [] license_type = "developer" -> <<"all", "dev_mode">>
      [] OTHER -> <<"basic">>

\* Mutant: the enterprise arm is missing and falls to the default.
get_max_users_no_enterprise(license_type) ==
    CASE license_type = "trial" -> Some(1)
      [] license_type = "single" -> Some(5)
      [] license_type = "multi" -> Some(20)
      [] license_type = "developer" -> Some(2)
      [] OTHER -> Some(1)

\* Mutant: an unrecognized tier gets no user ceiling.
get_max_users_fail_open(license_type) ==
    CASE license_type = "trial" -> Some(1)
      [] license_type = "single" -> Some(5)
      [] license_type = "multi" -> Some(20)
      [] license_type = "enterprise" -> None
      [] license_type = "developer" -> Some(2)
      [] OTHER -> None

get_max_users_for_type(license_type) ==
    CASE license_type = "trial" -> Some(1)
      [] license_type = "single" -> Some(5)
      [] license_type = "multi" -> Some(20)
      [] license_type = "enterprise" -> None
      [] license_type = "developer" -> Some(2)
      [] OTHER -> Some(1)

-----------------------------------------------------------------------------
(* Command line of the issuer.  An argument string is a sequence of tokens: *)
(* a token is a word, a comma or a blank.                                  *)

\* s.parse::<i64>().ok() of the --days text
ParseDays(text) == IF text.numeric THEN Some(text.n) ELSE None

HasComma(s) == \E i \in 1..Len(s) : s[i] = ","
FirstComma(s) == CHOOSE i \in 1..Len(s) : s[i] = "," /\ \A j \in 1..(i - 1) : s[j] # ","

\* str::split(',')
RECURSIVE Split(_)
Split(s) ==
    IF ~HasComma(s) THEN << s >>
    ELSE << SubSeq(s, 1, FirstComma(s) - 1) >>
         \o Split(SubSeq(s, FirstComma(s) + 1, Len(s)))

\* str::trim, then to_string: a segment holds at most one word
RECURSIVE Trim(_)
Trim(seg) ==
    IF seg = <<>> THEN ""
    ELSE IF seg[1] = " " THEN Trim(Tail(seg))
    ELSE IF seg[Len(seg)] = " " THEN Trim(SubSeq(seg, 1, Len(seg) - 1))
    ELSE seg[1]

\* Mutant: empty entries are dropped from the list.
NonEmptyStr(str) == str # ""
MapTrimNonEmpty(segs) == SelectSeq([i \in 1..Len(segs) |-> Trim(segs[i])], NonEmptyStr)

MapTrim(segs) == [i \in 1..Len(segs) |-> Trim(segs[i])]

-----------------------------------------------------------------------------
(* The validator: rust/scc-license/src/main.rs.                            *)

Ok(info) == [ok |-> TRUE, info |-> info]
Err(msg, detail) == [ok |-> FALSE, err |-> [msg |-> msg, detail |-> detail]]

\* serde_json::from_str::<LicenseFile>: a JSON object whose version is a u8
EnvelopeParses(content) ==
    /\ content.kind = "json"
    /\ content.version \in Byte

\* Mutant: every version from 1 on is taken as supported.
VersionAtLeastOne(version) == version >= 1

\* if license_file.version != 1 { return Err(..) }
VersionSupported(version) == version = 1

\* Mutant: the signature is not compared.
SignatureUnchecked(signature, payload_bytes) == TRUE

\* if license_file.signature != expected_sig { return Err(..) }
SignatureMatches(signature, payload_bytes) ==
    signature = scc_compute_signature(payload_bytes)

\* Mutant: the comparison is reversed.
IsExpiredReversed(expires_at, clock) == expires_at > clock

\* Mutant: a license counts as expired only on the day it expires.
IsExpiredOnTheDay(expires_at, clock) == expires_at = clock

\* if info.expires_at < Utc::now() { return Err(..) }
IsExpired(expires_at, clock) == expires_at < clock

InList(list, v) == \E i \in 1..Len(list) : list[i] = v

\* Mutant: an empty domains list no longer means any domain.
DomainRejectedWhenEmpty(domains, check_domain) ==
    /\ check_domain.some
    /\ ~InList(domains, check_domain.val)

\* if let Some(domain) = check_domain {
\*     if !info.domains.is_empty() && !info.domains.contains(domain) { return Err(..) } }
DomainRejected(domains, check_domain) ==
    /\ check_domain.some
    /\ Len(domains) # 0
    /\ ~InList(domains, check_domain.val)

\* The outcome of a run that stopped after the statements named in steps.
Ran(result, steps) == [result |-> result, steps |-> steps]

\* Mutant: the payload is deserialized before the signature is verified.
validate_license_parse_first(content, check_domain, clock) ==
    IF content.kind = "nofile" THEN
        Ran(Err("Cannot read license file", <<>>), <<"read">>)
    ELSE IF ~EnvelopeParses(content) THEN
        Ran(Err("Invalid license file format", <<>>), <<"read", "parse">>)
    ELSE IF ~VersionSupported(content.version) THEN
        Ran(Err("Unsupported license version", <<content.version>>),
            <<"read", "parse", "version">>)
    ELSE IF ~Base64Decode(content.payload).ok THEN
        Ran(Err("Invalid license payload", <<>>),
            <<"read", "parse", "version", "decode">>)
    ELSE LET payload_bytes == Base64Decode(content.payload).bytes IN
    IF ~Deserializable(payload_bytes) THEN
        Ran(Err("Invalid license data", <<>>),
            <<"read", "parse", "version", "decode", "deserialize">>)
    ELSE LET info == Deserialize(payload_bytes) IN
    IF ~SignatureMatches(content.signature, payload_bytes) THEN
        Ran(Err("Invalid license signature", <<>>),
            <<"read", "parse", "version", "decode", "deserialize", "verify">>)
    ELSE IF IsExpired(info.expires_at, clock) THEN
        Ran(Err("License expired on", <<info.expires_at>>),
            <<"read", "parse", "version", "decode", "deserialize", "verify",
              "expiry">>)
    ELSE IF DomainRejected(info.domains, check_domain) THEN
        Ran(Err("License not valid for domain", <<check_domain.val, info.domains>>),
            <<"read", "parse", "version", "decode", "deserialize", "verify",
              "expiry", "domain">>)
    ELSE
        Ran(Ok(info),
            <<"read", "parse", "version", "decode", "deserialize", "verify",
              "expiry", "domain">>)

\* validate_license(path, check_domain), on the content found at path and the
\* clock value that Utc::now() returns.  steps lists the statements executed.
validate_license(content, check_domain, clock) ==
    IF content.kind = "nofile" THEN
        Ran(Err("Cannot read license file", <<>>), <<"read">>)
    ELSE IF ~EnvelopeParses(content) THEN
        Ran(Err("Invalid license file format", <<>>), <<"read", "parse">>)
    ELSE IF ~VersionSupported(content.version) THEN
        Ran(Err("Unsupported license version", <<content.version>>),
            <<"read", "parse", "version">>)
    ELSE IF ~Base64Decode(content.payload).ok THEN
        Ran(Err("Invalid license payload", <<>>),
            <<"read", "parse", "version", "decode">>)
    ELSE LET payload_bytes == Base64Decode(content.payload).bytes IN
    IF ~SignatureMatches(content.signature, payload_bytes) THEN
        Ran(Err("Invalid license signature", <<>>),
            <<"read", "parse", "version", "decode", "verify">>)
    ELSE IF ~Deserializable(payload_bytes) THEN
        Ran(Err("Invalid license data", <<>>),
            <<"read", "parse", "version", "decode", "verify", "deserialize">>)
    ELSE LET info == Deserialize(payload_bytes) IN
    IF IsExpired(info.expires_at, clock) THEN
        Ran(Err("License expired on", <<info.expires_at>>),
            <<"read", "parse", "version", "decode", "verify", "deserialize",
              "expiry">>)
    ELSE IF DomainRejected(info.domains, check_domain) THEN
        Ran(Err("License not valid for domain", <<check_domain.val, info.domains>>),
            <<"read", "parse", "version", "decode", "verify", "deserialize",
              "expiry", "domain">>)
    ELSE
        Ran(Ok(info),
            <<"read", "parse", "version", "decode", "verify", "deserialize",
              "expiry", "domain">>)

Idle == [ran |-> FALSE]

\* The domains given as the second command-line argument.
DomainArgs == {None, Some("a.com"), Some("c.com")}

\* The symbols a payload symbol is replaced by.
TamperSyms(sym) == {(sym + 1) % Pad, Pad, BadSym} \ {sym}

\* The copies of an artifact that differ from it in one symbol of the payload.
TamperedCopies(content) ==
    IF content.kind # "json" THEN {}
    ELSE UNION { { [content EXCEPT !.payload[i] = sym] :
                     sym \in TamperSyms(content.payload[i]) }
                 : i \in 1..Len(content.payload) }

\* What fs::read_to_string(path) yields: the first command-line argument
\* names the artifact file or a copy of it altered in one payload symbol.
Readable == {file} \cup TamperedCopies(file)

\* Mutant: an artifact that fails validation is removed.
scc_main_quarantine ==
    /\ out = Idle
    /\ issuer \in {"none", "writing"}
    /\ \E content \in Readable, check_domain \in DomainArgs :
        LET run == validate_license(content, check_domain, now) IN
        /\ out' = [ ran          |-> TRUE,
                    check_domain |-> check_domain,
                    content      |-> content,
                    clock        |-> now,
                    steps        |-> run.steps,
                    stdout       |-> IF run.result.ok THEN Some(run.result.info)
                                     ELSE None,
                    stderr       |-> IF run.result.ok THEN None
                                     ELSE Some(run.result.err),
                    exit_code    |-> IF run.result.ok THEN 0 ELSE 1 ]
        /\ file' = IF run.result.ok THEN file ELSE NoFile
    /\ UNCHANGED <<now, orig, issuer, pending>>

\* main: one run of the validator process.
scc_main ==
    /\ out = Idle
    /\ issuer \in {"none", "writing"}
    /\ \E content \in Readable, check_domain \in DomainArgs :
        LET run == validate_license(content, check_domain, now) IN
        out' = [ ran          |-> TRUE,
                 check_domain |-> check_domain,
                 content      |-> content,
                 clock        |-> now,
                 steps        |-> run.steps,
                 stdout       |-> IF run.result.ok THEN Some(run.result.info)
                                  ELSE None,
                 stderr       |-> IF run.result.ok THEN None
                                  ELSE Some(run.result.err),
                 exit_code    |-> IF run.result.ok THEN 0 ELSE 1 ]
    /\ UNCHANGED <<now, file, orig, issuer, pending>>

-----------------------------------------------------------------------------
(* The issuer: rust/pfv-license/src/bin/generate.rs.                       *)

Word(w) == << w >>
Numeric(n) == [numeric |-> TRUE, n |-> n]
NotNumeric == [numeric |-> FALSE, n |-> 0]

\* The command lines tried.
LicenseeArgs == {Some("Dr. Pablo")}
EmailArgs == {None}
TypeArgs == {None} \cup {Some(StrTable[i]) : i \in 1..(Len(TierNames) + 1)}
DomainsArgs == {None, Some(<<>>), Some(<<"a.com", ",", " ", "b.com">>)}
DaysArgs == {None, Some(NotNumeric)}
            \cup {Some(Numeric(n)) : n \in (0 - NegDays)..MaxDays}

DefaultDays == 30

\* main, up to the LicenseFile it builds
BuildLicense(licensee_arg, email_arg, type_arg, domains_arg, days_arg, clock) ==
    LET licensee == unwrap_or(licensee_arg, "Demo User")
        email == unwrap_or(email_arg, "demo@example.com")
        license_type == unwrap_or(type_arg, "trial")
        domains_str == unwrap_or(domains_arg, Word("localhost"))
        days == unwrap_or(IF days_arg.some THEN ParseDays(days_arg.val) ELSE None,
                          DefaultDays)
        domains == MapTrim(Split(domains_str))
        expires == clock + days
        info == [ licensee     |-> licensee,
                  email        |-> email,
                  license_type |-> license_type,
                  issued_at    |-> clock,
                  expires_at   |-> expires,
                  domains      |-> domains,
                  features     |-> get_features_for_type(license_type),
                  max_users    |-> get_max_users_for_type(license_type) ]
        payload_json == Serialize(info)
        payload_b64 == Base64Encode(payload_json)
        signature == pfv_compute_signature(payload_json)
    IN  [ days |-> days,
          license_file |-> [version |-> 1, payload |-> payload_b64,
                            signature |-> signature] ]

NoPending ==
    [days |-> 0, license_file |-> [version |-> 0, payload |-> <<>>, signature |-> NoSig]]

\* main, up to the point where fs::write has created the output file:
\* fs::write is File::create, which truncates the file at the path, followed
\* by write_all, and other processes run between the two.  File::create fails
\* when the output location is not writable, and expect(..) then panics.
generate_main ==
    /\ out = Idle
    /\ issuer = "none"
    /\ \E licensee_arg \in LicenseeArgs, email_arg \in EmailArgs, type_arg \in TypeArgs,
          domains_arg \in DomainsArgs, days_arg \in DaysArgs, writable \in BOOLEAN :
        LET built == BuildLicense(licensee_arg, email_arg, type_arg, domains_arg,
                                  days_arg, now)
        IN  IF writable
            THEN /\ file' = Truncated
                 /\ orig' = [src |-> "none", art |-> Truncated, days |-> 0]
                 /\ pending' = built
                 /\ issuer' = "writing"
            ELSE /\ issuer' = "panic"
                 /\ UNCHANGED <<file, orig, pending>>
    /\ UNCHANGED <<now, out>>

\* main, from write_all to the end: the artifact is written and the summary
\* printed.
generate_write ==
    /\ out = Idle
    /\ issuer = "writing"
    /\ file' = JsonFile(pending.license_file)
    /\ orig' = [src |-> "issuer", art |-> JsonFile(pending.license_file),
                days |-> pending.days]
    /\ pending' = NoPending
    /\ issuer' = "ok"
    /\ UNCHANGED <<now, out>>

\* A process has exited and its outcome has been seen.
Reap ==
    /\ out # Idle \/ issuer \in {"ok", "panic"}
    /\ out' = Idle
    /\ issuer' = IF issuer = "writing" THEN "writing" ELSE "none"
    /\ UNCHANGED <<now, file, orig, pending>>

-----------------------------------------------------------------------------
(* The environment: the clock, and whatever else puts a file at the path.  *)
(* It acts between the runs of the two processes.                          *)

Quiet == out = Idle /\ issuer = "none"

Tick ==
    /\ Quiet
    /\ now < NegDays + MaxTicks
    /\ now' = now + 1
    /\ UNCHANGED <<file, orig, issuer, pending, out>>

\* Records signed outside the issuer.
VendorRecords(clock) ==
    { [ licensee     |-> "Dr. Pablo",
        email        |-> "demo@example.com",
        license_type |-> ty,
        issued_at    |-> clock,
        expires_at   |-> clock + InstallLife,
        domains      |-> ds,
        features     |-> get_features_for_type(ty),
        max_users    |-> get_max_users_for_type(ty) ]
      : ty \in {"single", "gold"}, ds \in { <<>>, <<"a.com", "b.com">> } }

InstallVersions == {0, 1, 2, 255, 256}

\* A file is put at the path: an artifact signed with either salt, at any version.
Install ==
    /\ Quiet
    /\ \E rec \in VendorRecords(now), version \in InstallVersions, scc \in BOOLEAN :
        LET bytes == Serialize(rec)
            art == JsonFile([version |-> version,
                             payload |-> Base64Encode(bytes),
                             signature |-> IF scc THEN scc_compute_signature(bytes)
                                           ELSE pfv_compute_signature(bytes)])
        IN  /\ file' = art
            /\ orig' = [src |-> "vendor", art |-> art, days |-> InstallLife]
    /\ UNCHANGED <<now, issuer, pending, out>>

\* The file is replaced by text that is not JSON, or removed.
Damage ==
    /\ Quiet
    /\ \E content \in {Garbage, NoFile} :
        /\ file # content
        /\ file' = content
        /\ orig' = [src |-> "none", art |-> content, days |-> 0]
    /\ UNCHANGED <<now, issuer, pending, out>>

Init ==
    /\ now = NegDays
    /\ file = NoFile
    /\ orig = [src |-> "none", art |-> NoFile, days |-> 0]
    /\ issuer = "none"
    /\ pending = NoPending
    /\ out = Idle

Next ==
    \/ generate_main
    \/ generate_write
    \/ scc_main
    \/ Tick
    \/ Install
    \/ Damage
    \/ Reap

Spec == Init /\ [][Next]_vars

-----------------------------------------------------------------------------
(* Vocabulary of the properties.                                           *)

\* The error taxonomy: the classification of each message of validate_license.
Classification(err) ==
    CASE err.msg = "Cannot read license file" -> "Unreadable"
      [] err.msg = "Invalid license file format" -> "Malformed"
      [] err.msg = "Unsupported license version" -> "UnsupportedVersion"
      [] err.msg = "Invalid license payload" -> "Malformed"
      [] err.msg = "Invalid license signature" -> "InvalidSignature"
      [] err.msg = "Invalid license data" -> "Malformed"
      [] err.msg = "License expired on" -> "Expired"
      [] err.msg = "License not valid for domain" -> "DomainNotLicensed"

\* The outcome of the validator run recorded in out.
Outcome == IF out.exit_code = 0 THEN "Ok" ELSE Classification(out.stderr.val)

\* The bytes and the record that a payload text encodes.
PayloadBytes(content) == Base64Decode(content.payload).bytes
PayloadRecord(content) == Deserialize(PayloadBytes(content))

Range(seq) == {seq[i] : i \in 1..Len(seq)}

FiveTiers == Range(TierNames)

\* The Entitlement Policy table, as the specification prints it.
PolicyFeatures ==
    [ trial      |-> {"basic"},
      single     |-> {"basic", "appointments", "ecommerce"},
      multi      |-> {"basic", "appointments", "ecommerce", "multi_location"},
      enterprise |-> {"all"},
      developer  |-> {"all", "dev_mode"} ]

PolicyMaxUsers ==
    [ trial      |-> Some(1),
      single     |-> Some(5),
      multi      |-> Some(20),
      enterprise |-> None,
      developer  |-> Some(2) ]

\* The file is the artifact the issuer wrote, untouched, for one of the five
\* tiers and a positive number of days.
IssuedValid ==
    /\ orig.src = "issuer"
    /\ file = orig.art
    /\ orig.days > 0
    /\ PayloadRecord(file).license_type \in FiveTiers

\* The validator ran on the file itself.
RanOnFile == out.ran /\ out.content = file

\* The checks of the validator, in the order of the specification, each as a
\* condition on what the run read: the artifact, the domain argument, the clock.
CheckOrder ==
    <<"read", "parse", "version", "decode", "verify", "deserialize", "expiry",
      "domain">>

CheckClass ==
    <<"Unreadable", "Malformed", "UnsupportedVersion", "Malformed",
      "InvalidSignature", "Malformed", "Expired", "DomainNotLicensed">>

\* Whether check i fails; it is asked only when the checks before it passed.
CheckFails(i, c, d, t) ==
    CASE i = 1 -> c.kind = "nofile"
      [] i = 2 -> ~(c.kind = "json" /\ c.version \in 0..255)
      [] i = 3 -> c.version # 1
      [] i = 4 -> ~Base64Valid(c.payload)
      [] i = 5 -> c.signature # HexEncode(Sha256(PayloadBytes(c) \o SccSalt))
      [] i = 6 -> ~Deserializable(PayloadBytes(c))
      [] i = 7 -> PayloadRecord(c).expires_at < t
      [] i = 8 -> /\ d.some
                  /\ PayloadRecord(c).domains # <<>>
                  /\ d.val \notin Range(PayloadRecord(c).domains)

\* Check i fails and every check before it passes.
FirstFailure(i, c, d, t) ==
    /\ \A j \in 1..(i - 1) : ~CheckFails(j, c, d, t)
    /\ CheckFails(i, c, d, t)

AllPass(c, d, t) == \A j \in 1..Len(CheckOrder) : ~CheckFails(j, c, d, t)

\* The checks 1..n pass.
PassUpTo(n, c, d, t) == \A j \in 1..n : ~CheckFails(j, c, d, t)

\* Two artifacts that differ in exactly one symbol of the payload field.
OneSymbolApart(a, b) ==
    /\ a.kind = "json" /\ b.kind = "json"
    /\ a.version = b.version
    /\ a.signature = b.signature
    /\ Len(a.payload) = Len(b.payload)
    /\ Cardinality({i \in 1..Len(a.payload) : a.payload[i] # b.payload[i]}) = 1

\* validate accepts the artifact at some time (with no domain argument, which
\* succeeds whenever some domain argument does).
Accepted(c) ==
    \E t \in 0..(NegDays + MaxTicks) : validate_license(c, None, t).result.ok

-----------------------------------------------------------------------------
(* C1.  For every valid issuer parameter set, validate on the artifact that *)
(* issue wrote, with no domain argument and before expires_at, returns     *)
(* success, and the returned record's features and max_users are the       *)
(* Entitlement Policy's values for the tier.                               *)
(* The code does not do this: the two programs sign with different salts   *)
(* (C10), so the validator rejects every artifact of the issuer.           *)
C1_IssueThenValidate ==
    (/\ RanOnFile
     /\ IssuedValid
     /\ ~out.check_domain.some
     /\ out.clock < PayloadRecord(file).expires_at)
    => /\ out.exit_code = 0
       /\ out.stdout.some
       /\ Range(out.stdout.val.features)
            = PolicyFeatures[PayloadRecord(file).license_type]
       /\ out.stdout.val.max_users
            = PolicyMaxUsers[PayloadRecord(file).license_type]

-----------------------------------------------------------------------------
(* C2.  validate runs its checks in the order read, parse, version, decode, *)
(* verify, deserialize, expiry, domain and stops at the first that fails:  *)
(* the statements executed are a prefix of that order, an error is the     *)
(* classification of the earliest failing check, and success means that no *)
(* check fails.  In particular a run that ends in InvalidSignature has not *)
(* deserialized the payload.                                               *)
C2_CheckOrder ==
    out.ran =>
        LET c == out.content
            d == out.check_domain
            t == out.clock
            n == Len(out.steps)
        IN  /\ n \in 1..Len(CheckOrder)
            /\ out.steps = SubSeq(CheckOrder, 1, n)
            /\ out.exit_code = 1 =>
                 /\ FirstFailure(n, c, d, t)
                 /\ Outcome = CheckClass[n]
            /\ out.exit_code = 0 => AllPass(c, d, t)
            /\ Outcome = "InvalidSignature" => "deserialize" \notin Range(out.steps)

\* A run rejected for its signature although its payload would not have
\* deserialized either (an unknown tier).
C2_Witness ==
    /\ out.ran
    /\ Outcome = "InvalidSignature"
    /\ ~Deserializable(PayloadBytes(out.content))

-----------------------------------------------------------------------------
-----------------------------------------------------------------------------
(* C4.  Version gate: a well-formed artifact whose version is not 1 is     *)
(* rejected as UnsupportedVersion whatever its payload and signature are,  *)
(* and no record is returned.                                              *)
C4_VersionGate ==
    (/\ out.ran
     /\ out.content.kind = "json"
     /\ out.content.version \in 0..255
     /\ out.content.version # 1)
    => /\ Outcome = "UnsupportedVersion"
       /\ out.exit_code = 1
       /\ ~out.stdout.some

\* A version 2 artifact, otherwise self-consistent, was rejected.
C4_Witness ==
    /\ out.ran
    /\ out.content.kind = "json"
    /\ out.content.version = 2
    /\ Accepted([out.content EXCEPT !.version = 1])
    /\ Outcome = "UnsupportedVersion"

-----------------------------------------------------------------------------
(* C5.  Expiry check: an artifact that passes every check up to payload    *)
(* parse is accepted only when expires_at is strictly after the current    *)
(* time, and is rejected as Expired when expires_at is at or before it.    *)
(* The code rejects only when expires_at is strictly before the clock.     *)
C5_ExpiryStrict ==
    (out.ran /\ PassUpTo(6, out.content, out.check_domain, out.clock))
    => /\ out.exit_code = 0 => PayloadRecord(out.content).expires_at > out.clock
       /\ PayloadRecord(out.content).expires_at <= out.clock => Outcome = "Expired"

-----------------------------------------------------------------------------
(* C6.  Domain scoping: for an authentic, unexpired record validate        *)
(* returns DomainNotLicensed exactly when a domain was supplied, the       *)
(* record's domains are not empty and the domain is not among them;        *)
(* otherwise it returns success.                                           *)
C6_DomainScoping ==
    (out.ran /\ PassUpTo(7, out.content, out.check_domain, out.clock))
    => LET domains == PayloadRecord(out.content).domains
           denied == /\ out.check_domain.some
                     /\ domains # <<>>
                     /\ out.check_domain.val \notin Range(domains)
       IN  /\ Outcome = "DomainNotLicensed" <=> denied
           /\ Outcome = "Ok" <=> ~denied

\* A domain outside the list of an authentic, unexpired record was refused.
C6_Witness ==
    /\ out.ran
    /\ PassUpTo(7, out.content, out.check_domain, out.clock)
    /\ out.check_domain = Some("c.com")
    /\ PayloadRecord(out.content).domains = <<"a.com", "b.com">>
    /\ Outcome = "DomainNotLicensed"

-----------------------------------------------------------------------------
(* C7.  issue rejects a non-positive validity duration: for days <= 0 it   *)
(* fails and writes no artifact.                                           *)
(* The code accepts any integer and writes the artifact.                   *)
C7_NonPositiveDaysRejected ==
    ~(issuer = "ok" /\ orig.src = "issuer" /\ file = orig.art /\ orig.days <= 0)

-----------------------------------------------------------------------------
(* C8.  In every record that issue writes, features and max_users are the  *)
(* values of the Entitlement Policy table for the record's license_type.   *)
C8_Entitlements ==
    (issuer = "ok" /\ PayloadRecord(file).license_type \in FiveTiers)
    => LET rec == PayloadRecord(file)
       IN  /\ Range(rec.features) = PolicyFeatures[rec.license_type]
           /\ Len(rec.features) = Cardinality(PolicyFeatures[rec.license_type])
           /\ rec.max_users = PolicyMaxUsers[rec.license_type]

\* An enterprise record was written, with no user ceiling.
C8_Witness ==
    /\ issuer = "ok"
    /\ PayloadRecord(file).license_type = "enterprise"
    /\ PayloadRecord(file).features = <<"all">>
    /\ ~PayloadRecord(file).max_users.some

-----------------------------------------------------------------------------
-----------------------------------------------------------------------------
(* C10.  Issuer and validator use the same signing scheme with the same    *)
(* secret: the signature the issuer writes is the one the validator        *)
(* recomputes for the same payload bytes.                                  *)
(* The code embeds two different salts.                                    *)
C10_SameSignature ==
    issuer = "ok" => file.signature = scc_compute_signature(PayloadBytes(file))

-----------------------------------------------------------------------------
(* C11.  Every record that issue writes satisfies expires_at > issued_at,  *)
(* for every value of days the issuer accepts.                             *)
(* The code accepts days <= 0 (C7) and then writes expires_at <= issued_at. *)
C11_ExpiresAfterIssued ==
    issuer = "ok" =>
        PayloadRecord(file).expires_at > PayloadRecord(file).issued_at

-----------------------------------------------------------------------------
(* C12.  The license_type of every record that issue writes is one of the  *)
(* five tiers, so the payload deserializes in the validator's payload      *)
(* parse.                                                                  *)
(* The code writes the --type text as it was given.                        *)
C12_TierIsEnumerated ==
    issuer = "ok" =>
        /\ PayloadRecord(file).license_type \in FiveTiers
        /\ Deserializable(PayloadBytes(file))

-----------------------------------------------------------------------------
(* C13.  The Entitlement Policy is total and does not fail open: a record  *)
(* written for an unrecognized tier carries the trial entry, features      *)
(* {basic} and max_users 1, and that ceiling is no greater than the        *)
(* ceiling of any recognized tier.                                         *)
C13_FallbackIsTrial ==
    (issuer = "ok" /\ PayloadRecord(file).license_type \notin FiveTiers)
    => LET rec == PayloadRecord(file)
       IN  /\ rec.features = <<"basic">>
           /\ rec.max_users = Some(1)
           /\ rec.features = get_features_for_type("trial")
           /\ rec.max_users = get_max_users_for_type("trial")
           /\ \A tier \in FiveTiers :
                \/ ~get_max_users_for_type(tier).some
                \/ get_max_users_for_type(tier).val >= rec.max_users.val

\* A record for the unrecognized tier "gold" was written.
C13_Witness ==
    /\ issuer = "ok"
    /\ PayloadRecord(file).license_type = "gold"
    /\ PayloadRecord(file).max_users = Some(1)

-----------------------------------------------------------------------------
(* C14.  The issuer replaces the artifact atomically: a validator running  *)
(* while the issuer runs reads the complete previous content or one        *)
(* complete new artifact, never an empty or truncated file.                *)
(* The code calls fs::write on the output path itself: the file is empty   *)
(* from its creation until the content is written.                         *)
C14_AtomicReplace ==
    out.ran => out.content.kind # "truncated"

-----------------------------------------------------------------------------
(* C15.  validate never mutates the artifact: whatever the outcome, the    *)
(* content of the artifact file after a run of the validator is its        *)
(* content before the run.                                                 *)
C15_ValidateReadOnly ==
    [][(~out.ran /\ out'.ran) => (file' = file /\ orig' = orig)]_vars

\* The validator rejected an artifact, and the artifact is still in place.
C15_Witness ==
    /\ out.ran
    /\ out.exit_code = 1
    /\ out.content = file
    /\ file.kind = "json"

-----------------------------------------------------------------------------
(* C16.  Every artifact the issuer writes has a non-empty domains list     *)
(* (localhost by default, one empty string for an empty --domains value),  *)
(* so the validator's "empty list means any domain" branch is not taken    *)
(* for it: the domain check refuses every domain outside the list, and a   *)
(* run of the validator on such an artifact for such a domain never        *)
(* succeeds.                                                               *)
C16_IssuedDomainsNonEmpty ==
    /\ issuer = "ok" =>
         LET domains == PayloadRecord(file).domains
         IN  /\ Len(domains) >= 1
             /\ \A d \in DomainArgs :
                  (d.some /\ d.val \notin Range(domains)) => DomainRejected(domains, d)
    /\ (/\ RanOnFile
        /\ orig.src = "issuer"
        /\ file = orig.art
        /\ out.check_domain.some
        /\ out.check_domain.val \notin Range(PayloadRecord(file).domains))
       => out.exit_code = 1

\* An artifact was written for an empty --domains value: its list holds one
\* empty string.
C16_Witness ==
    /\ issuer = "ok"
    /\ PayloadRecord(file).domains = <<"">>
    /\ DomainRejected(PayloadRecord(file).domains, Some("a.com"))

-----------------------------------------------------------------------------
(* C17.  For a fixed artifact and a fixed domain argument, as the current  *)
(* time advances the outcome of validate changes only from success or      *)
(* DomainNotLicensed to Expired: once Expired it is Expired at every later *)
(* time, and Unreadable, Malformed, UnsupportedVersion and                 *)
(* InvalidSignature are the same at every time.  issued_at is not read: an *)
(* authentic artifact signed again for another issued_at has the same      *)
(* outcome.                                                                *)

\* The outcome of a call of validate_license.
OutcomeOf(run) == IF run.result.ok THEN "Ok" ELSE Classification(run.result.err)

\* The times the clock can show, and one more.
Times == 0..(NegDays + MaxTicks + 1)

TimeFree == {"Unreadable", "Malformed", "UnsupportedVersion", "InvalidSignature"}

\* The artifact is signed by the validator's scheme.
Authentic(c) ==
    /\ c.kind = "json"
    /\ Base64Valid(c.payload)
    /\ Len(PayloadBytes(c)) = 8
    /\ c.signature = scc_compute_signature(PayloadBytes(c))

\* The artifact for the same record issued at x, signed again.
ReIssued(c, x) ==
    LET bytes == [PayloadBytes(c) EXCEPT ![4] = x]
    IN  [c EXCEPT !.payload = Base64Encode(bytes),
                  !.signature = scc_compute_signature(bytes)]

C17_OnlyTowardsExpired ==
    out.ran =>
        /\ \A t \in Times :
             LET other == OutcomeOf(validate_license(out.content, out.check_domain, t))
             IN  /\ Outcome \in TimeFree => other = Outcome
                 /\ (t >= out.clock /\ Outcome = "Expired") => other = "Expired"
                 /\ (t >= out.clock /\ Outcome \in {"Ok", "DomainNotLicensed"})
                      => other \in {Outcome, "Expired"}
                 /\ other \in TimeFree => other = Outcome
        /\ Authentic(out.content) =>
             \A x \in Times :
                OutcomeOf(validate_license(ReIssued(out.content, x),
                                           out.check_domain, out.clock)) = Outcome

\* An accepted artifact that the same call rejects as Expired later on.
C17_Witness ==
    /\ out.ran
    /\ Outcome = "Ok"
    /\ \E t \in Times :
         /\ t > out.clock
         /\ OutcomeOf(validate_license(out.content, out.check_domain, t)) = "Expired"

====
